---- MODULE Spec2Model ----
(***************************************************************************)
(* A model of the ifs client: the talker (src/talker.go), the frame codec  *)
(* (Packet.Marshal / Packet.Unmarshal) and the RemoteNode upcalls.         *)
(*                                                                         *)
(* Three state machines share the module:                                  *)
(*   Spec      the talker with an agent that may also send duplicate or    *)
(*             unsolicited frames;                                         *)
(*   LiveSpec  the talker with an agent that answers each request frame    *)
(*             once, under fair scheduling;                                *)
(*   NodeSpec  the RemoteNode / FileHandle upcalls on a directory tree;    *)
(*   CodecSpec Packet.Marshal followed by Packet.Unmarshal.                *)
(***************************************************************************)
EXTENDS Integers, Sequences, FiniteSets, TLC

(***************************************************************************)
(* Bounds of the model.                                                    *)
(***************************************************************************)
\* poolCount handed to talker.Startup: connections per remote
PoolCount == 2
\* concurrent calls of sendRequest (one per kernel upcall goroutine)
NumCallers == 2
\* capacity of one SendingChannels[i] (ChannelLength in the source is 100)
QueueCap == 1
\* frames the agent sends that answer no request frame (duplicates, junk)
MaxInject == 1
\* the timer ticks of a run
MaxTicks == 2
\* the longest list of remote roots handed to Startup
MaxRoots == 2

\* the hostnames of the configured remote roots
Hostnames == {"h1", "h2"}
ConnIds == 0 .. (PoolCount - 1)
Callers == 1 .. NumCallers
\* a response channel is made by one call of sendRequest and named after it
Chans == Callers
NoChan == 0
\* ids the per-hostname counter can hand out within the bounds
MaxId == NumCallers
NoStamp == [Hostname |-> "", ConnId |-> 0, Id |-> 0]

(***************************************************************************)
(* Op codes (src/constants.go).                                            *)
(***************************************************************************)
AttrRequest == 0
ReadDirRequest == 1
FetchFileRequest == 2
ReadFileRequest == 3
WriteFileRequest == 4
StatResponse == 10
StatsResponse == 11
FileDataResponse == 12

VARIABLES
    \* ---- talker ----
    IdCounters,        \* t.IdCounters: hostname -> *uint64
    SendingChannels,   \* pool.SendingChannels: hostname -> index -> queue of tuples
    RequestBuffer,     \* t.RequestBuffer: key string -> *PacketChannelTuple
    caller,            \* each caller's position in sendRequest
    egress,            \* each processSendingChannel goroutine: pc and current tuple
    ingress,           \* each processIncomingMessages goroutine: pc, packet, channel
    outbound,          \* frames written on each connection, in write order
    agentDone,         \* request frames the agent has answered
    inbound,           \* frames the agent has sent, not yet read by the ingress worker
    injected,          \* duplicate / unsolicited frames sent so far
    closed,            \* response channels that were closed
    delivered,         \* packets each response channel handed to its caller
    stamped,           \* (hostname, conn_id, id) the egress worker put on each request
    crashed,           \* the process died of a panic
    enqueued,          \* the response channels of the requests put on each egress queue, in order
    \* ---- keepalive ----
    ping,              \* the setupPing goroutine: pc and the connections left in this tick
    ticks,             \* the timer ticks setupPing has received
    attempts,          \* the ping frames setupPing has handed to each connection
    failures,          \* those of them whose WriteMessage returned an error
    writers,           \* the goroutines inside WriteMessage on each connection
    \* ---- start-up ----
    roots,             \* the hostnames of the remoteRoots handed to Startup, in order
    startup,           \* Startup: its position in the loops over roots and connections
    poolHeap,          \* the FsConnectionPool objects made so far: their Connections
    poolOf,            \* t.Pools: hostname -> pool object
    workers,           \* the goroutines spawned by mountRemoteRoot, in spawn order
    \* ---- RemoteNode tree ----
    nodes,             \* the RemoteNode objects made so far: id -> fields
    last,              \* the upcall that ran last, with what it sent and returned
    prev,              \* the upcall before it, when last looks up what that one made or removed
    renames,           \* the Renames that succeeded so far
    \* ---- frame codec ----
    cpkt,              \* the packet handed to Marshal
    cframe,            \* Marshal's result
    cout               \* the packet Unmarshal filled in

talkerVars == <<IdCounters, SendingChannels, RequestBuffer, caller, egress, ingress,
                outbound, agentDone, inbound, injected, closed, delivered, stamped,
                crashed, enqueued, ping, ticks, attempts, failures, writers>>

pingVars == <<ping, ticks, attempts, failures, writers>>

nodeVars == <<nodes, last, prev, renames>>
codecVars == <<cpkt, cframe, cout>>
startVars == <<roots, startup, poolHeap, poolOf, workers>>
vars == <<talkerVars, nodeVars, codecVars, startVars>>

\* the hostnames Startup has set up a pool for
Pools == DOMAIN IdCounters

(***************************************************************************)
(* talker.go                                                               *)
(***************************************************************************)
\* strconv.FormatInt(int64(n), 10) for the small non-negative n of the model
FormatInt(n) == ToString(n)

\* strings.Join([]string{hostname, connId, id}, "_")
GetMapKeyNoId(hostname, connId, id) == hostname \o "_" \o FormatInt(connId)
GetMapKey(hostname, connId, id) ==
    hostname \o "_" \o FormatInt(connId) \o "_" \o FormatInt(id)

\* atomic.AddUint64(addr, delta): the new value. The counter stays far below 2^64
\* within MaxId, so the wrap-around of the uint64 is out of reach here.
AddUint64Stale(v, delta) == v
AddUint64(v, delta) == v + delta

\* Packet.IsRequest
IsRequest(pkt) == pkt.Flags = 0

\* cmap.Set / cmap.Remove / cmap.Get on RequestBuffer
CmapSet(m, k, v) == [x \in (DOMAIN m) \cup {k} |-> IF x = k THEN v ELSE m[x]]
CmapRemove(m, k) == [x \in (DOMAIN m) \ {k} |-> m[x]]
CmapHas(m, k) == k \in DOMAIN m

NoPacket == [Op |-> 0, Data |-> NoChan, ConnId |-> 0, Id |-> 0, Flags |-> 0]

\* The payload of a request is kept as the number of the caller that built it; the
\* negated number is a payload of that caller which msgpack.Marshal rejects.
Unencodable(c) == 0 - c
\* Packet.Marshal returns (nil, err) exactly for such a payload
MarshalFails(pkt) == pkt.Data < 0
\* data, _ := pkt.Marshal(): the bytes handed to WriteMessage; nil, i.e. a frame of
\* no bytes, when Marshal failed
EmptyFrame == [Op |-> 0, Data |-> NoChan, ConnId |-> 0, Id |-> 0, Flags |-> 0]
MarshalOrNil(pkt) == IF MarshalFails(pkt) THEN EmptyFrame ELSE pkt
NoTuple == [Packet |-> NoPacket, Channel |-> NoChan]

\* talker.Startup + mountRemoteRoot for the hostnames of remoteRoots: a counter at 0,
\* a pool of PoolCount connections, one egress and one ingress worker per connection,
\* and the setupPing goroutine waiting for its first tick.
TalkerInit(remoteRoots) ==
    /\ IdCounters = [h \in remoteRoots |-> 0]
    /\ SendingChannels = [h \in remoteRoots |-> [i \in ConnIds |-> <<>>]]
    /\ RequestBuffer = [k \in {} |-> NoTuple]
    /\ caller = [c \in Callers |-> [pc |-> "idle", hostname |-> "", index |-> 0]]
    /\ egress = [h \in remoteRoots |-> [i \in ConnIds |-> [pc |-> "range", req |-> NoTuple]]]
    /\ ingress = [h \in remoteRoots |-> [i \in ConnIds |->
                    [pc |-> "read", packet |-> NoPacket, ch |-> NoChan]]]
    /\ outbound = [h \in remoteRoots |-> [i \in ConnIds |-> <<>>]]
    /\ agentDone = {}
    /\ inbound = [h \in remoteRoots |-> [i \in ConnIds |-> <<>>]]
    /\ injected = 0
    /\ closed = {}
    /\ delivered = [ch \in Chans |-> <<>>]
    /\ stamped = [ch \in Chans |-> NoStamp]
    /\ crashed = FALSE
    /\ enqueued = [h \in remoteRoots |-> [i \in ConnIds |-> <<>>]]
    /\ ping = [pc |-> "wait", todo |-> <<>>]
    /\ ticks = 0
    /\ attempts = [h \in remoteRoots |-> [i \in ConnIds |-> 0]]
    /\ failures = [h \in remoteRoots |-> [i \in ConnIds |-> 0]]
    /\ writers = [h \in remoteRoots |-> [i \in ConnIds |-> {}]]

\* sendRequest, down to the choice of the egress queue: respChannel := make(chan
\* *Packet); req := &Packet{Op: opCode, Data: payload}; GetRandomIndex(pool.Len()).
SendRequestBegin(c, hostname, index) ==
    /\ ~crashed
    /\ caller[c].pc = "idle"
    /\ caller' = [caller EXCEPT ![c] =
                    [pc |-> "enqueue", hostname |-> hostname, index |-> index]]
    /\ UNCHANGED <<IdCounters, SendingChannels, RequestBuffer, egress, ingress, outbound,
                   agentDone, inbound, injected, closed, delivered, stamped, crashed>>
    /\ UNCHANGED <<enqueued, pingVars, nodeVars, codecVars, startVars>>

\* sendRequest: SendingChannels[index] <- &PacketChannelTuple{req, respChannel}, which
\* blocks while that queue is full; the caller then waits in <-respChannel.
SendRequestPayload(c, payload) ==
    LET h == caller[c].hostname
        i == caller[c].index
        req == [Packet |-> [Op |-> AttrRequest, Data |-> payload, ConnId |-> 0, Id |-> 0,
                            Flags |-> 0],
                Channel |-> c]
    IN  /\ ~crashed
        /\ caller[c].pc = "enqueue"
        /\ Len(SendingChannels[h][i]) < QueueCap
        /\ SendingChannels' = [SendingChannels EXCEPT ![h][i] = Append(@, req)]
        /\ caller' = [caller EXCEPT ![c].pc = "recv"]
        /\ enqueued' = [enqueued EXCEPT ![h][i] = Append(@, req.Channel)]
        /\ UNCHANGED <<IdCounters, RequestBuffer, egress, ingress, outbound, agentDone,
                       inbound, injected, closed, delivered, stamped, crashed>>
        /\ UNCHANGED <<pingVars, nodeVars, codecVars, startVars>>

\* sendRequest with a payload the encoder takes
SendRequestEnqueue(c) == SendRequestPayload(c, c)
\* sendRequest with a payload the encoder rejects
SendRequestUnencodable(c) == SendRequestPayload(c, Unencodable(c))

\* processSendingChannel: for req := range SendingChannels[index];
\* pkt.ConnId = index; pkt.Id = atomic.AddUint64(counter, 1);
\* t.RequestBuffer.Set(GetMapKey(hostname, pkt.ConnId, pkt.Id), req)
EgressStamp(h, i) ==
    /\ ~crashed
    /\ egress[h][i].pc = "range"
    /\ SendingChannels[h][i] # <<>>
    /\ LET req == Head(SendingChannels[h][i])
           id == AddUint64(IdCounters[h], 1)
           pkt == [req.Packet EXCEPT !.ConnId = i, !.Id = id]
           stampedReq == [req EXCEPT !.Packet = pkt]
       IN  /\ IdCounters' = [IdCounters EXCEPT ![h] = id]
           /\ SendingChannels' = [SendingChannels EXCEPT ![h][i] = Tail(@)]
           /\ RequestBuffer' = CmapSet(RequestBuffer, GetMapKey(h, pkt.ConnId, pkt.Id),
                                       stampedReq)
           /\ egress' = [egress EXCEPT ![h][i] = [pc |-> "write", req |-> stampedReq]]
           /\ stamped' = [stamped EXCEPT ![req.Channel] =
                            [Hostname |-> h, ConnId |-> i, Id |-> id]]
    /\ UNCHANGED <<caller, ingress, outbound, agentDone, inbound, injected, closed,
                   delivered, crashed>>
    /\ UNCHANGED <<enqueued, pingVars, nodeVars, codecVars, startVars>>

\* processSendingChannel: data, _ := pkt.Marshal(); Connections[index].WriteMessage(data)
EgressWriteLost(h, i) ==
    /\ ~crashed
    /\ egress[h][i].pc = "write"
    /\ egress' = [egress EXCEPT ![h][i] = [pc |-> "range", req |-> NoTuple]]
    /\ UNCHANGED <<IdCounters, SendingChannels, RequestBuffer, caller, ingress, outbound,
                   agentDone, inbound, injected, closed, delivered, stamped, crashed>>
    /\ UNCHANGED <<enqueued, pingVars, nodeVars, codecVars, startVars>>

EgressWriteFront(h, i) ==
    /\ ~crashed
    /\ egress[h][i].pc = "write"
    /\ outbound' = [outbound EXCEPT ![h][i] = <<MarshalOrNil(egress[h][i].req.Packet)>> \o @]
    /\ egress' = [egress EXCEPT ![h][i] = [pc |-> "range", req |-> NoTuple]]
    /\ UNCHANGED <<IdCounters, SendingChannels, RequestBuffer, caller, ingress, agentDone,
                   inbound, injected, closed, delivered, stamped, crashed>>
    /\ UNCHANGED <<enqueued, pingVars, nodeVars, codecVars, startVars>>

EgressWrite(h, i) ==
    /\ ~crashed
    /\ egress[h][i].pc = "write"
    /\ outbound' = [outbound EXCEPT ![h][i] = Append(@, MarshalOrNil(egress[h][i].req.Packet))]
    /\ egress' = [egress EXCEPT ![h][i] = [pc |-> "range", req |-> NoTuple]]
    /\ UNCHANGED <<IdCounters, SendingChannels, RequestBuffer, caller, ingress, agentDone,
                   inbound, injected, closed, delivered, stamped, crashed>>
    /\ UNCHANGED <<enqueued, pingVars, nodeVars, codecVars, startVars>>

\* The agent answers the n-th request frame it got on connection i of remote h, on the
\* same connection, with the frame's id and conn_id and non-zero flags. A frame of no
\* bytes has no header to answer.
AgentRespond(h, i, n) ==
    /\ ~crashed
    /\ n \in 1 .. Len(outbound[h][i])
    /\ outbound[h][i][n] # EmptyFrame
    /\ <<h, i, n>> \notin agentDone
    /\ LET f == outbound[h][i][n]
           resp == [Op |-> StatResponse, Data |-> f.Data, ConnId |-> f.ConnId,
                    Id |-> f.Id, Flags |-> 1]
       IN  inbound' = [inbound EXCEPT ![h][i] = Append(@, resp)]
    /\ agentDone' = agentDone \cup {<<h, i, n>>}
    /\ UNCHANGED <<IdCounters, SendingChannels, RequestBuffer, caller, egress, ingress,
                   outbound, injected, closed, delivered, stamped, crashed>>
    /\ UNCHANGED <<enqueued, pingVars, nodeVars, codecVars, startVars>>

\* The agent sends once more, on any connection j of the pool, the response it has
\* already sent for the n-th request frame of connection i.
AgentDuplicate(h, i, n, j) ==
    /\ ~crashed
    /\ injected < MaxInject
    /\ <<h, i, n>> \in agentDone
    /\ LET f == outbound[h][i][n]
           resp == [Op |-> StatResponse, Data |-> f.Data, ConnId |-> f.ConnId,
                    Id |-> f.Id, Flags |-> 1]
       IN  inbound' = [inbound EXCEPT ![h][j] = Append(@, resp)]
    /\ injected' = injected + 1
    /\ UNCHANGED <<IdCounters, SendingChannels, RequestBuffer, caller, egress, ingress,
                   outbound, agentDone, closed, delivered, stamped, crashed>>
    /\ UNCHANGED <<enqueued, pingVars, nodeVars, codecVars, startVars>>

\* The agent sends a frame that answers nothing on connection j: a request of its own
\* (flags = 0) or a response frame (flags = 1) carrying conn_id j and any id.
AgentUnsolicited(h, j, id, flags) ==
    /\ ~crashed
    /\ injected < MaxInject
    /\ LET f == [Op |-> StatResponse, Data |-> NoChan, ConnId |-> j, Id |-> id,
                 Flags |-> flags]
       IN  inbound' = [inbound EXCEPT ![h][j] = Append(@, f)]
    /\ injected' = injected + 1
    /\ UNCHANGED <<IdCounters, SendingChannels, RequestBuffer, caller, egress, ingress,
                   outbound, agentDone, closed, delivered, stamped, crashed>>
    /\ UNCHANGED <<enqueued, pingVars, nodeVars, codecVars, startVars>>

\* processIncomingMessages: ReadMessage, Unmarshal; a request goes to processRequest (a
\* no-op); for a response, req, _ := RequestBuffer.Get(key); ch = req.(*PacketChannelTuple)
\* .Channel, and the type assertion panics when the key has no entry.
IngressRead(h, i) ==
    /\ ~crashed
    /\ ingress[h][i].pc = "read"
    /\ inbound[h][i] # <<>>
    /\ inbound' = [inbound EXCEPT ![h][i] = Tail(@)]
    /\ LET packet == Head(inbound[h][i])
           key == GetMapKey(h, packet.ConnId, packet.Id)
       IN  IF IsRequest(packet)
           THEN UNCHANGED <<ingress, crashed>>
           ELSE IF CmapHas(RequestBuffer, key)
                THEN /\ ingress' = [ingress EXCEPT ![h][i] =
                            [pc |-> "send", packet |-> packet,
                             ch |-> RequestBuffer[key].Channel]]
                     /\ UNCHANGED crashed
                ELSE /\ crashed' = TRUE
                     /\ UNCHANGED ingress
    /\ UNCHANGED <<IdCounters, SendingChannels, RequestBuffer, caller, egress, outbound,
                   agentDone, injected, closed, delivered, stamped>>
    /\ UNCHANGED <<enqueued, pingVars, nodeVars, codecVars, startVars>>

\* processIncomingMessages: ch <- packet, met by sendRequest's return <-respChannel.
\* The channel is unbuffered: the send completes only with the caller receiving, and a
\* send on a closed channel panics.
IngressSendNoClose(h, i) ==
    LET ch == ingress[h][i].ch
        c == ch
    IN  /\ ~crashed
        /\ ingress[h][i].pc = "send"
        /\ caller[c].pc = "recv"
        /\ delivered' = [delivered EXCEPT ![ch] = Append(@, ingress[h][i].packet)]
        /\ caller' = [caller EXCEPT ![c].pc = "done"]
        /\ ingress' = [ingress EXCEPT ![h][i].pc = "remove"]
        /\ UNCHANGED <<IdCounters, SendingChannels, RequestBuffer, egress, outbound,
                       agentDone, inbound, injected, closed, stamped, crashed>>
        /\ UNCHANGED <<enqueued, pingVars, nodeVars, codecVars, startVars>>

IngressSend(h, i) ==
    LET ch == ingress[h][i].ch
        c == ch
    IN  /\ ~crashed
        /\ ingress[h][i].pc = "send"
        /\ IF ch \in closed
           THEN /\ crashed' = TRUE
                /\ UNCHANGED <<delivered, caller, ingress>>
           ELSE /\ caller[c].pc = "recv"
                /\ delivered' = [delivered EXCEPT ![ch] = Append(@, ingress[h][i].packet)]
                /\ caller' = [caller EXCEPT ![c].pc = "done"]
                /\ ingress' = [ingress EXCEPT ![h][i].pc = "close"]
                /\ UNCHANGED crashed
        /\ UNCHANGED <<IdCounters, SendingChannels, RequestBuffer, egress, outbound,
                       agentDone, inbound, injected, closed, stamped>>
        /\ UNCHANGED <<enqueued, pingVars, nodeVars, codecVars, startVars>>

\* processIncomingMessages: close(ch); closing a closed channel panics.
IngressClose(h, i) ==
    /\ ~crashed
    /\ ingress[h][i].pc = "close"
    /\ IF ingress[h][i].ch \in closed
       THEN /\ crashed' = TRUE
            /\ UNCHANGED <<closed, ingress>>
       ELSE /\ closed' = closed \cup {ingress[h][i].ch}
            /\ ingress' = [ingress EXCEPT ![h][i].pc = "remove"]
            /\ UNCHANGED crashed
    /\ UNCHANGED <<IdCounters, SendingChannels, RequestBuffer, caller, egress, outbound,
                   agentDone, inbound, injected, delivered, stamped>>
    /\ UNCHANGED <<enqueued, pingVars, nodeVars, codecVars, startVars>>

\* processIncomingMessages: t.RequestBuffer.Remove(GetMapKey(hostname, packet.ConnId,
\* packet.Id)), then back to ReadMessage.
IngressRemoveLeak(h, i) ==
    /\ ~crashed
    /\ ingress[h][i].pc = "remove"
    /\ ingress' = [ingress EXCEPT ![h][i] =
                    [pc |-> "read", packet |-> NoPacket, ch |-> NoChan]]
    /\ UNCHANGED <<IdCounters, SendingChannels, RequestBuffer, caller, egress, outbound,
                   agentDone, inbound, injected, closed, delivered, stamped, crashed>>
    /\ UNCHANGED <<enqueued, pingVars, nodeVars, codecVars, startVars>>
IngressRemove(h, i) ==
    /\ ~crashed
    /\ ingress[h][i].pc = "remove"
    /\ LET packet == ingress[h][i].packet
       IN  RequestBuffer' = CmapRemove(RequestBuffer,
                                       GetMapKey(h, packet.ConnId, packet.Id))
    /\ ingress' = [ingress EXCEPT ![h][i] =
                    [pc |-> "read", packet |-> NoPacket, ch |-> NoChan]]
    /\ UNCHANGED <<IdCounters, SendingChannels, caller, egress, outbound, agentDone,
                   inbound, injected, closed, delivered, stamped, crashed>>
    /\ UNCHANGED <<enqueued, pingVars, nodeVars, codecVars, startVars>>

\* the orders in which Pools.IterBuffered can hand out the pools, each followed by
\* the range over pool.Connections
RECURSIVE ConnsOf(_, _)
ConnsOf(h, i) == IF i >= PoolCount THEN <<>> ELSE <<<<h, i>>>> \o ConnsOf(h, i + 1)
RECURSIVE Flatten(_)
Flatten(hs) == IF hs = <<>> THEN <<>> ELSE ConnsOf(Head(hs), 0) \o Flatten(Tail(hs))
PoolOrders ==
    {hs \in [1 .. Cardinality(Pools) -> Pools] : \A a, b \in DOMAIN hs : a # b => hs[a] # hs[b]}

\* setupPing: for range ch; a tick starts the loops over the pools and their connections
PingTick(hs) ==
    /\ ~crashed
    /\ ping.pc = "wait"
    /\ ticks < MaxTicks
    /\ ticks' = ticks + 1
    /\ ping' = IF Flatten(hs) = <<>> THEN ping ELSE [pc |-> "write", todo |-> Flatten(hs)]
    /\ UNCHANGED <<attempts, failures, writers>>
    /\ UNCHANGED <<IdCounters, SendingChannels, RequestBuffer, caller, egress, ingress,
                   outbound, agentDone, inbound, injected, closed, delivered, stamped,
                   crashed, enqueued>>
    /\ UNCHANGED <<nodeVars, codecVars, startVars>>

\* setupPing: err := conn.WriteMessage(websocket.PingMessage, "ping"); an error is
\* logged and the loop goes on with the next connection
PingWriteFatal(err) ==
    LET h == Head(ping.todo)[1]
        i == Head(ping.todo)[2]
    IN  /\ ~crashed
        /\ ping.pc = "write"
        /\ attempts' = [attempts EXCEPT ![h][i] = @ + 1]
        /\ failures' = [failures EXCEPT ![h][i] = IF err THEN @ + 1 ELSE @]
        /\ ping' = IF err \/ Tail(ping.todo) = <<>>
                   THEN [pc |-> "wait", todo |-> <<>>]
                   ELSE [pc |-> "write", todo |-> Tail(ping.todo)]
        /\ UNCHANGED <<ticks, writers>>
        /\ UNCHANGED <<IdCounters, SendingChannels, RequestBuffer, caller, egress, ingress,
                       outbound, agentDone, inbound, injected, closed, delivered, stamped,
                       crashed, enqueued>>
        /\ UNCHANGED <<nodeVars, codecVars, startVars>>
PingWrite(err) ==
    LET h == Head(ping.todo)[1]
        i == Head(ping.todo)[2]
    IN  /\ ~crashed
        /\ ping.pc = "write"
        /\ attempts' = [attempts EXCEPT ![h][i] = @ + 1]
        /\ failures' = [failures EXCEPT ![h][i] = IF err THEN @ + 1 ELSE @]
        /\ ping' = IF Tail(ping.todo) = <<>>
                   THEN [pc |-> "wait", todo |-> <<>>]
                   ELSE [pc |-> "write", todo |-> Tail(ping.todo)]
        /\ UNCHANGED <<ticks, writers>>
        /\ UNCHANGED <<IdCounters, SendingChannels, RequestBuffer, caller, egress, ingress,
                       outbound, agentDone, inbound, injected, closed, delivered, stamped,
                       crashed, enqueued>>
        /\ UNCHANGED <<nodeVars, codecVars, startVars>>

(***************************************************************************)
(* The two writers of a connection, with WriteMessage as a call that is    *)
(* entered and left.  Neither talker.go nor the connection takes a lock     *)
(* around it.  The connection notices a second writer only sometimes: the   *)
(* late writer either panics ("concurrent write to websocket connection")   *)
(* or goes on unnoticed.                                                    *)
(***************************************************************************)
\* processSendingChannel enters Connections[index].WriteMessage(BinaryMessage, data)
EgressWriteEnter(h, i, noticed) ==
    /\ ~crashed
    /\ egress[h][i].pc = "write"
    /\ egress' = [egress EXCEPT ![h][i].pc = "writing"]
    /\ writers' = [writers EXCEPT ![h][i] = @ \cup {"egress"}]
    /\ crashed' = (noticed /\ writers[h][i] # {})
    /\ UNCHANGED <<ping, ticks, attempts, failures>>
    /\ UNCHANGED <<IdCounters, SendingChannels, RequestBuffer, caller, ingress, outbound,
                   agentDone, inbound, injected, closed, delivered, stamped, enqueued>>
    /\ UNCHANGED <<nodeVars, codecVars, startVars>>

\* ... and returns from it: the frame is on the connection
EgressWriteLeave(h, i) ==
    /\ ~crashed
    /\ egress[h][i].pc = "writing"
    /\ outbound' = [outbound EXCEPT ![h][i] = Append(@, MarshalOrNil(egress[h][i].req.Packet))]
    /\ egress' = [egress EXCEPT ![h][i] = [pc |-> "range", req |-> NoTuple]]
    /\ writers' = [writers EXCEPT ![h][i] = @ \ {"egress"}]
    /\ UNCHANGED <<ping, ticks, attempts, failures>>
    /\ UNCHANGED <<IdCounters, SendingChannels, RequestBuffer, caller, ingress, agentDone,
                   inbound, injected, closed, delivered, stamped, crashed, enqueued>>
    /\ UNCHANGED <<nodeVars, codecVars, startVars>>

\* setupPing enters conn.WriteMessage(PingMessage, "ping") on the next connection
PingWriteEnter(noticed) ==
    LET h == Head(ping.todo)[1]
        i == Head(ping.todo)[2]
    IN  /\ ~crashed
        /\ ping.pc = "write"
        /\ ping' = [ping EXCEPT !.pc = "writing"]
        /\ writers' = [writers EXCEPT ![h][i] = @ \cup {"ping"}]
        /\ crashed' = (noticed /\ writers[h][i] # {})
        /\ UNCHANGED <<ticks, attempts, failures>>
        /\ UNCHANGED <<IdCounters, SendingChannels, RequestBuffer, caller, egress, ingress,
                       outbound, agentDone, inbound, injected, closed, delivered, stamped,
                       enqueued>>
        /\ UNCHANGED <<nodeVars, codecVars, startVars>>

\* ... and returns from it, with or without an error, and goes on to the next
PingWriteLeave(err) ==
    LET h == Head(ping.todo)[1]
        i == Head(ping.todo)[2]
    IN  /\ ~crashed
        /\ ping.pc = "writing"
        /\ attempts' = [attempts EXCEPT ![h][i] = @ + 1]
        /\ failures' = [failures EXCEPT ![h][i] = IF err THEN @ + 1 ELSE @]
        /\ writers' = [writers EXCEPT ![h][i] = @ \ {"ping"}]
        /\ ping' = IF Tail(ping.todo) = <<>>
                   THEN [pc |-> "wait", todo |-> <<>>]
                   ELSE [pc |-> "write", todo |-> Tail(ping.todo)]
        /\ UNCHANGED ticks
        /\ UNCHANGED <<IdCounters, SendingChannels, RequestBuffer, caller, egress, ingress,
                       outbound, agentDone, inbound, injected, closed, delivered, stamped,
                       crashed, enqueued>>
        /\ UNCHANGED <<nodeVars, codecVars, startVars>>

\* the RemoteNode tree and the codec at rest, while the talker runs
NodeQuiet == nodes = <<>> /\ last = <<>> /\ prev = <<>> /\ renames = 0
CodecQuiet == cpkt = <<>> /\ cframe = <<>> /\ cout = <<>>
\* Startup has returned and is looked at no further
StartQuiet ==
    /\ roots = <<>>
    /\ startup = [pc |-> "done", r |-> 0, i |-> 0]
    /\ poolHeap = <<>>
    /\ poolOf = <<>>
    /\ workers = <<>>

\* two remote roots are mounted
Init == TalkerInit(Hostnames) /\ NodeQuiet /\ CodecQuiet /\ StartQuiet

\* the client with an agent that answers every request frame once
Next ==
    \/ \E c \in Callers, h \in Pools, i \in ConnIds : SendRequestBegin(c, h, i)
    \/ \E c \in Callers : SendRequestEnqueue(c)
    \/ \E h \in Pools, i \in ConnIds : EgressStamp(h, i)
    \/ \E h \in Pools, i \in ConnIds : EgressWrite(h, i)
    \/ \E h \in Pools, i \in ConnIds, n \in 1 .. MaxId : AgentRespond(h, i, n)
    \/ \E h \in Pools, i \in ConnIds : IngressRead(h, i)
    \/ \E h \in Pools, i \in ConnIds : IngressSend(h, i)
    \/ \E h \in Pools, i \in ConnIds : IngressClose(h, i)
    \/ \E h \in Pools, i \in ConnIds : IngressRemove(h, i)

Spec == Init /\ [][Next]_vars

\* Go runs every goroutine that can run, and the agent answers: some step that is
\* possible is eventually taken.
\* one remote root is mounted
LiveInit == TalkerInit({"h1"}) /\ NodeQuiet /\ CodecQuiet /\ StartQuiet

LiveSpec == LiveInit /\ [][Next]_vars /\ WF_vars(Next)

\* the client with an agent that also sends duplicate and unsolicited frames
FaultNext ==
    \/ Next
    \/ \E h \in Pools, i \in ConnIds, n \in 1 .. MaxId, j \in ConnIds :
            AgentDuplicate(h, i, n, j)
    \/ \E h \in Pools, j \in ConnIds, id \in 1 .. MaxId, flags \in {0, 1} :
            AgentUnsolicited(h, j, id, flags)

FaultSpec == Init /\ [][FaultNext]_vars

\* the talker with callers whose payload the encoder may reject
EncodeNext ==
    \/ Next
    \/ \E c \in Callers : SendRequestUnencodable(c)

EncodeSpec == Init /\ [][EncodeNext]_vars

(***************************************************************************)
(* talker.Startup and talker.mountRemoteRoot, step by step.  The pool       *)
(* (newFsConnectionPool, Append, Len, Connections, SendingChannels) is not  *)
(* part of the sources at hand; it is taken as the specification describes  *)
(* it: a vector of connections that Append extends by one, with one egress  *)
(* queue per appended connection.                                           *)
(***************************************************************************)
\* the lists of remote roots handed to Startup, by hostname
RootLists ==
    UNION {[1 .. k -> Hostnames] : k \in 1 .. MaxRoots}

\* newFsConnectionPool(), pool.Append(c) and pool.Len(), on the vector of connections
NewPool == <<>>
PoolAppend(pool, c) == Append(pool, c)
PoolLen(pool) == Len(pool)
\* pool.Connections[index] and pool.SendingChannels[index] exist
HasIndex(pool, index) == index < Len(pool)

\* a goroutine started with `go`, not yet scheduled
Spawned(kind, hostname, index) ==
    [kind |-> kind, hostname |-> hostname, index |-> index, pc |-> "spawned", pool |-> 0]

\* Startup is called with one of the lists
StartInit ==
    /\ roots \in RootLists
    /\ startup = [pc |-> "set", r |-> 1, i |-> 0]
    /\ poolHeap = <<>>
    /\ poolOf = [h \in {} |-> 0]
    /\ workers = <<>>

\* Startup, for remoteRoot r: idCounter := 0; IdCounters.Set(hostname, &idCounter);
\* Pools.Set(hostname, newFsConnectionPool()); then into mountRemoteRoot
StartupSet ==
    LET h == roots[startup.r]
    IN  /\ ~crashed
        /\ startup.pc = "set"
        /\ IdCounters' = CmapSet(IdCounters, h, 0)
        /\ poolHeap' = Append(poolHeap, NewPool)
        /\ poolOf' = CmapSet(poolOf, h, Len(poolHeap) + 1)
        /\ startup' = [startup EXCEPT !.pc = "dial", !.i = 0]
        /\ UNCHANGED <<roots, workers>>
        /\ UNCHANGED <<SendingChannels, RequestBuffer, caller, egress, ingress, outbound,
                       agentDone, inbound, injected, closed, delivered, stamped, crashed,
                       enqueued, pingVars>>
        /\ UNCHANGED <<nodeVars, codecVars>>

\* mountRemoteRoot, one turn of its loop: Dial (a failed handshake is Fatal);
\* getPool(hostname).Append(c); index := Len() - 1; go processSendingChannel(hostname,
\* index); go processIncomingMessages(hostname, index)
StartupDial(ok) ==
    LET h == roots[startup.r]
        p == poolOf[h]
        c == (Len(workers) \div 2) + 1
        index == PoolLen(PoolAppend(poolHeap[p], c)) - 1
        lastTurn == startup.i + 1 = PoolCount
    IN  /\ ~crashed
        /\ startup.pc = "dial"
        /\ IF ~ok
           THEN /\ crashed' = TRUE
                /\ UNCHANGED <<poolHeap, workers, startup>>
           ELSE /\ poolHeap' = [poolHeap EXCEPT ![p] = PoolAppend(@, c)]
                /\ workers' = workers \o <<Spawned("egress", h, index),
                                           Spawned("ingress", h, index)>>
                /\ startup' = IF ~lastTurn
                              THEN [startup EXCEPT !.i = @ + 1]
                              ELSE IF startup.r < Len(roots)
                                   THEN [pc |-> "set", r |-> startup.r + 1, i |-> 0]
                                   ELSE [pc |-> "done", r |-> startup.r, i |-> 0]
                /\ UNCHANGED crashed
        /\ UNCHANGED <<roots, poolOf>>
        /\ UNCHANGED <<IdCounters, SendingChannels, RequestBuffer, caller, egress, ingress,
                       outbound, agentDone, inbound, injected, closed, delivered, stamped,
                       enqueued, pingVars>>
        /\ UNCHANGED <<nodeVars, codecVars>>

\* A spawned worker is scheduled and evaluates, with the pool the hostname has at
\* that moment, getPool(hostname).SendingChannels[index] (egress, the range) or
\* getPool(hostname).Connections[index] (ingress, the first read): an index beyond
\* the pool's length panics, otherwise the worker is at work on that pool.
WorkerBegin(w) ==
    LET wk == workers[w]
        p == poolOf[wk.hostname]
    IN  /\ ~crashed
        /\ wk.pc = "spawned"
        /\ IF HasIndex(poolHeap[p], wk.index)
           THEN /\ workers' = [workers EXCEPT ![w].pc = "running", ![w].pool = p]
                /\ UNCHANGED crashed
           ELSE /\ workers' = [workers EXCEPT ![w].pc = "panicked"]
                /\ crashed' = TRUE
        /\ UNCHANGED <<roots, startup, poolHeap, poolOf>>
        /\ UNCHANGED <<IdCounters, SendingChannels, RequestBuffer, caller, egress, ingress,
                       outbound, agentDone, inbound, injected, closed, delivered, stamped,
                       enqueued, pingVars>>
        /\ UNCHANGED <<nodeVars, codecVars>>

StartBegin == TalkerInit({}) /\ NodeQuiet /\ CodecQuiet /\ StartInit

StartNext ==
    \/ StartupSet
    \/ \E ok \in BOOLEAN : StartupDial(ok)
    \/ \E w \in DOMAIN workers : WorkerBegin(w)

StartSpec == StartBegin /\ [][StartNext]_vars

\* the keepalive goroutine on the mounted pools
PingNext ==
    \/ \E hs \in PoolOrders : PingTick(hs)
    \/ \E err \in BOOLEAN : PingWrite(err)

PingSpec == Init /\ [][PingNext]_vars

\* the callers, the egress workers and the keepalive of one remote, writing
WriteNext ==
    \/ \E c \in Callers, h \in Pools, i \in ConnIds : SendRequestBegin(c, h, i)
    \/ \E c \in Callers : SendRequestEnqueue(c)
    \/ \E h \in Pools, i \in ConnIds : EgressStamp(h, i)
    \/ \E h \in Pools, i \in ConnIds, noticed \in BOOLEAN : EgressWriteEnter(h, i, noticed)
    \/ \E h \in Pools, i \in ConnIds : EgressWriteLeave(h, i)
    \/ \E hs \in PoolOrders : PingTick(hs)
    \/ \E noticed \in BOOLEAN : PingWriteEnter(noticed)
    \/ \E err \in BOOLEAN : PingWriteLeave(err)

WriteSpec == LiveInit /\ [][WriteNext]_vars

(***************************************************************************)
(* The frame codec: Packet.Marshal and Packet.Unmarshal.                   *)
(*                                                                         *)
(* A uint64 is kept as four 16-bit limbs, most significant first, so that  *)
(* every bit of it fits the integers of TLC. The msgpack encoder           *)
(* is a dependency of the repository: it is modelled as a length byte      *)
(* followed by the record's content, with no trace of the record's type.   *)
(***************************************************************************)
\* op codes that the source files at hand use but do not declare
ReadDirAllRequest == 5
SetAttrRequest == 6
CreateRequest == 7
RemoveRequest == 8
RenameRequest == 9
OpenRequest == 20
CloseRequest == 21
WriteResponse == 13
ErrorResponse == 14

\* Packet.Unmarshal: the record the switch on pkt.Op allocates (struc), by its Go type;
\* "nil" when no case matches
StrucOf(op) ==
    CASE op = AttrRequest -> "*RemotePath"
      [] op = ReadDirRequest -> "*ReadDirInfo"
      [] op = ReadDirAllRequest -> "*RemotePath"
      [] op = FetchFileRequest -> "*RemotePath"
      [] op = ReadFileRequest -> "*ReadInfo"
      [] op = WriteFileRequest -> "*WriteInfo"
      [] op = SetAttrRequest -> "*AttrInfo"
      [] op = CreateRequest -> "*CreateInfo"
      [] op = RemoveRequest -> "*RemotePath"
      [] op = RenameRequest -> "*RenameInfo"
      [] op = OpenRequest -> "*OpenInfo"
      [] op = CloseRequest -> "*CloseInfo"
      [] op = StatResponse -> "*Stat"
      [] op = StatsResponse -> "*DirInfo"
      [] op = FileDataResponse -> "*FileChunk"
      [] op = WriteResponse -> "*WriteResult"
      [] op = ErrorResponse -> "*Error"
      [] OTHER -> "nil"

\* a Go type assertion data.(T): whether the dynamic type of data is exactly T
TypeAssert(data, T) == data.type = T

\* binary.BigEndian.PutUint64: the eight bytes of v, most significant first
PutUint64LittleEndian(v) ==
    [j \in 1 .. 8 |-> IF j % 2 = 1 THEN v[4 - (j \div 2)] % 256
                                   ELSE v[5 - (j \div 2)] \div 256]
PutUint64(v) ==
    [j \in 1 .. 8 |-> IF j % 2 = 1 THEN v[(j + 1) \div 2] \div 256
                                   ELSE v[j \div 2] % 256]

\* binary.BigEndian.Uint64 of the first eight bytes of data
Uint64(data) == [k \in 1 .. 4 |-> data[2 * k - 1] * 256 + data[2 * k]]

\* msgpack.Marshal(pkt.Data): fails on a value it has no encoding for
MsgpackMarshal(d) ==
    IF d.type = "chan"
    THEN [data |-> <<>>, err |-> TRUE]
    ELSE [data |-> <<Len(d.val)>> \o d.val, err |-> FALSE]

\* msgpack.Unmarshal(payload, struc): fills struc, or fails
MsgpackUnmarshal(payload, struc) ==
    IF struc = "nil" \/ payload = <<>> \/ payload[1] # Len(payload) - 1
    THEN [struc |-> [type |-> struc, val |-> <<>>], err |-> TRUE]
    ELSE [struc |-> [type |-> struc, val |-> Tail(payload)], err |-> FALSE]

\* Packet.Marshal
Marshal(pkt) ==
    LET header == PutUint64(pkt.Id) \o <<pkt.Op, pkt.ConnId, pkt.Flags>>
        enc == MsgpackMarshal(pkt.Data)
    IN  IF enc.err
        THEN [data |-> <<>>, err |-> TRUE]
        ELSE [data |-> header \o enc.data, err |-> FALSE]

\* Packet.Unmarshal: indexing a frame shorter than its header panics, and a payload
\* that does not decode ends the process (zap Fatal)
Unmarshal(data) ==
    IF Len(data) < 11
    THEN [status |-> "panic", pkt |-> <<>>]
    ELSE LET op == data[9]
             dec == MsgpackUnmarshal(SubSeq(data, 12, Len(data)), StrucOf(op))
         IN  IF dec.err
             THEN [status |-> "fatal", pkt |-> <<>>]
             ELSE [status |-> "ok",
                   pkt |-> [Id |-> Uint64(data), Op |-> op, ConnId |-> data[10],
                            Flags |-> data[11], Data |-> dec.struc]]

\* the packets handed to Marshal: ids with every byte position in use, every op code of
\* the switch and one outside it, and the payload record of the op's own variant, or a
\* value msgpack cannot encode
CodecIds ==
    {<<0, 0, 0, 0>>, <<0, 0, 0, 1>>, <<0, 0, 0, 258>>, <<0, 0, 1, 0>>,
     <<4660, 22136, 39612, 57072>>, <<32768, 0, 0, 0>>, <<65535, 65535, 65535, 65535>>}
DefinedOps ==
    {AttrRequest, ReadDirRequest, ReadDirAllRequest, FetchFileRequest, ReadFileRequest,
     WriteFileRequest, SetAttrRequest, CreateRequest, RemoveRequest, RenameRequest,
     OpenRequest, CloseRequest, StatResponse, StatsResponse, FileDataResponse,
     WriteResponse, ErrorResponse}
CodecOps == DefinedOps \cup {99}
CodecPackets ==
    {[Id |-> id, Op |-> op, ConnId |-> conn, Flags |-> fl, Data |-> [type |-> t, val |-> v]] :
        id \in CodecIds, op \in CodecOps, conn \in {0, 1, 255}, fl \in {0, 1},
        t \in {"own", "chan"}, v \in {<<>>, <<7>>, <<1, 200>>}}
\* the payload type "own" stands for the variant of the packet's op
OwnVariant(pkt) ==
    IF pkt.Data.type = "own"
    THEN [pkt EXCEPT !.Data.type = StrucOf(pkt.Op)]
    ELSE [pkt EXCEPT !.Data.val = <<>>]

CodecInit ==
    /\ cpkt \in {OwnVariant(q) : q \in CodecPackets}
    /\ cframe = <<>>
    /\ cout = <<>>

\* data, err := pkt.Marshal()
DoMarshal ==
    /\ cframe = <<>>
    /\ cframe' = Marshal(cpkt)
    /\ UNCHANGED <<cpkt, cout>>
    /\ UNCHANGED <<talkerVars, nodeVars, startVars>>

\* packet := &Packet{}; packet.Unmarshal(data) on the bytes Marshal returned
DoUnmarshal ==
    /\ cframe # <<>>
    /\ cout = <<>>
    /\ cout' = Unmarshal(cframe.data)
    /\ UNCHANGED <<cpkt, cframe>>
    /\ UNCHANGED <<talkerVars, nodeVars, startVars>>

CodecNext ==
    \/ DoMarshal
    \/ DoUnmarshal

\* no remote is mounted and no upcall runs while frames are coded
CodecStart == TalkerInit({}) /\ NodeQuiet /\ CodecInit /\ StartQuiet

CodecSpec == CodecStart /\ [][CodecNext]_vars

(***************************************************************************)
(* The node tree: the RemoteNode upcalls and FileHandle.ReadDirAll.        *)
(*                                                                         *)
(* nodes is the heap of RemoteNode objects, a node's identity being its    *)
(* index; a path is the sequence of its components below the mounted root. *)
(* last records the upcall that ran last. prev records the upcall before   *)
(* it when last is the Lookup of the name which that upcall created or     *)
(* removed with success, and no upcall otherwise. The answer of the agent  *)
(* and the result of the file handler are inputs. A                        *)
(* panic leaves the upcall without a return value; what the upcall wrote   *)
(* before it stays written.                                                *)
(***************************************************************************)
MaxNodes == 3
MaxRenames == 1

Names == {"a", "b"}
NameSeq == <<"a", "b">>
NoNode == 0

\* the children map: make(map[string]*RemoteNode), m[k] = v, delete(m, k)
EmptyMap == [k \in {} |-> NoNode]
MapSet(mp, k, v) == [x \in DOMAIN mp \cup {k} |-> IF x = k THEN v ELSE mp[x]]
MapDelete(mp, k) == [x \in DOMAIN mp \ {k} |-> mp[x]]

\* path.Join(dir, name) for a name of one component
Join(dir, name) == Append(dir, name)

\* RemoteNode.generateChildRemoteNode
generateChildRemoteNode(rn, name, isDir) ==
    [IsDir |-> isDir, RemotePath |-> Join(rn.RemotePath, name), RemoteNodes |-> EmptyMap]

\* the loop over the listing in Lookup and ReadDirAll: a fresh node for every entry
RECURSIVE Populate(_, _, _, _)
Populate(ns, n, files, k) ==
    IF k > Len(files)
    THEN ns
    ELSE LET ns1 == Append(ns, generateChildRemoteNode(ns[n], files[k].Name, files[k].IsDir))
             ns2 == [ns1 EXCEPT ![n].RemoteNodes = MapSet(@, files[k].Name, Len(ns1))]
         IN  Populate(ns2, n, files, k + 1)

\* what the agent can answer: a Stat, a DirInfo with the Stats of some names, an Error
StatOf(name, isDir, size) ==
    [Name |-> name, IsDir |-> isDir, Size |-> size, Mode |-> 420, ModTime |-> 1000]
Listings ==
    {[i \in 1 .. Len(SelectSeq(NameSeq, LAMBDA x : x \in DOMAIN f)) |->
        StatOf(SelectSeq(NameSeq, LAMBDA x : x \in DOMAIN f)[i],
               f[SelectSeq(NameSeq, LAMBDA x : x \in DOMAIN f)[i]], 0)] :
        f \in UNION {[S -> BOOLEAN] : S \in SUBSET Names}}
\* the packet sendRequest returns: Unmarshal chose the type of Data by the op
Response(op, val) == [Op |-> op, Flags |-> 1, Data |-> [type |-> StrucOf(op), val |-> val]]
ErrorAnswer == Response(ErrorResponse, <<>>)
StatAnswers == {Response(StatResponse, <<StatOf("", d, 42)>>) : d \in BOOLEAN}
DirAnswers == {Response(StatsResponse, files) : files \in Listings}
\* the listings of plain files
FileAnswers == {r \in DirAnswers : \A i \in 1 .. Len(r.Data.val) : ~r.Data.val[i].IsDir}
NoAnswer == [Op |-> 0, Flags |-> 0, Data |-> [type |-> "nil", val |-> <<>>]]

\* the names a response lists
Listed(resp) ==
    IF resp.Data.type = "*DirInfo"
    THEN {resp.Data.val[i].Name : i \in 1 .. Len(resp.Data.val)}
    ELSE {}

NodeIds == 1 .. Len(nodes)
Dirs == {n \in NodeIds : nodes[n].IsDir}

\* the record of one upcall
Call(op, n, name) ==
    [op |-> op, node |-> n, name |-> name, dest |-> NoNode, destName |-> "",
     cur |-> NoNode, hit |-> FALSE, rpcs |-> <<>>, resp |-> NoAnswer,
     result |-> "nil", ret |-> NoNode, attr |-> <<>>,
     kids |-> IF n = NoNode THEN EmptyMap ELSE nodes[n].RemoteNodes,
     valid |-> {}, fh |-> <<>>, fhErr |-> FALSE, arg |-> [Ref |-> NoNode, Path |-> <<>>]]
\* RemoteNode.RemotePath is a *RemotePath: the object is made with its node and the
\* pointer field is assigned nowhere else, so the object is known by its node, and
\* whoever holds the pointer reads the object's present content
PathObject(n) == n
Deref(r) == nodes[r].RemotePath
\* a *RemotePath handed to a callee, with the path it showed at that moment
Handed(n) == [Ref |-> PathObject(n), Path |-> Deref(PathObject(n))]
\* a call of the local file handler (Ifs.FileHandler)
FhCall(fn, path) == [Fn |-> fn, Path |-> path]
\* t.sendRequest(op, hostname, payload) as the upcall sees it
Rpc(op, path) == [Op |-> op, Path |-> path]

NodeInit ==
    /\ nodes = <<[IsDir |-> TRUE, RemotePath |-> <<>>, RemoteNodes |-> EmptyMap]>>
    /\ last = Call("none", NoNode, "")
    /\ prev = Call("none", NoNode, "")
    /\ renames = 0

Finish(call) ==
    /\ last' = call
    /\ prev' = IF /\ call.op = "Lookup"
                  /\ last.op \in {"Create", "Mkdir", "Remove"}
                  /\ last.result = "nil"
                  /\ last.node = call.node
                  /\ last.name = call.name
               THEN last
               ELSE Call("none", NoNode, "")
    /\ renames' = IF call.op = "Rename" /\ call.result = "nil" THEN renames + 1 ELSE renames
    /\ UNCHANGED <<talkerVars, codecVars, startVars>>

\* RemoteNode.Attr
Attr(n, resp) ==
    LET c == [Call("Attr", n, "") EXCEPT !.rpcs = <<Rpc(AttrRequest, nodes[n].RemotePath)>>,
                                         !.resp = resp]
    IN  /\ nodes' = nodes
        /\ IF TypeAssert(resp.Data, "Error")
           THEN Finish([c EXCEPT !.result = "err"])
           ELSE IF ~TypeAssert(resp.Data, "*Stat")
                THEN Finish([c EXCEPT !.result = "panic"])
                ELSE Finish([c EXCEPT !.attr = <<[Size |-> resp.Data.val[1].Size,
                                                   Mode |-> resp.Data.val[1].Mode,
                                                   Mtime |-> resp.Data.val[1].ModTime]>>])

\* RemoteNode.Lookup
Lookup(n, name, resp) ==
    LET c == Call("Lookup", n, name)
        miss == [c EXCEPT !.rpcs = <<Rpc(ReadDirAllRequest, nodes[n].RemotePath)>>,
                          !.resp = resp]
        reset == [nodes EXCEPT ![n].RemoteNodes = EmptyMap]
        filled == Populate(reset, n, resp.Data.val, 1)
    IN  IF name \in DOMAIN nodes[n].RemoteNodes
        THEN /\ resp = NoAnswer
             /\ nodes' = nodes
             /\ Finish([c EXCEPT !.hit = TRUE, !.ret = nodes[n].RemoteNodes[name]])
        ELSE /\ resp # NoAnswer
             /\ IF TypeAssert(resp.Data, "Error")
                THEN /\ nodes' = reset
                     /\ Finish([miss EXCEPT !.result = "ENOENT"])
                ELSE IF ~TypeAssert(resp.Data, "*DirInfo")
                     THEN /\ nodes' = reset
                          /\ Finish([miss EXCEPT !.result = "panic"])
                     ELSE /\ Len(filled) <= MaxNodes
                          /\ nodes' = filled
                          /\ IF name \in DOMAIN filled[n].RemoteNodes
                             THEN Finish([miss EXCEPT !.ret = filled[n].RemoteNodes[name]])
                             ELSE Finish([miss EXCEPT !.result = "ENOENT"])

\* FileHandle.ReadDirAll on the handle of node n
ReadDirAll(n, resp) ==
    LET c == [Call("ReadDirAll", n, "") EXCEPT
                  !.rpcs = <<Rpc(ReadDirRequest, nodes[n].RemotePath)>>, !.resp = resp]
        reset == [nodes EXCEPT ![n].RemoteNodes = EmptyMap]
        filled == Populate(reset, n, resp.Data.val, 1)
    IN  IF TypeAssert(resp.Data, "Error")
        THEN /\ nodes' = reset
             /\ Finish([c EXCEPT !.result = "err"])
        ELSE IF ~TypeAssert(resp.Data, "*DirInfo")
             THEN /\ nodes' = reset
                  /\ Finish([c EXCEPT !.result = "panic"])
             ELSE /\ Len(filled) <= MaxNodes
                  /\ nodes' = filled
                  /\ Finish(c)

\* the bits of fuse.SetattrValid the model tells apart
ValidBits == {"size", "mode", "atime"}

\* RemoteNode.Setattr: valid is the set of fields the request marks valid
SetattrModeFirst(n, valid, ok, resp) ==
    LET c == [Call("Setattr", n, "") EXCEPT !.valid = valid]
    IN  /\ nodes' = nodes
        /\ IF "size" \in valid /\ "mode" \notin valid
           THEN /\ resp = NoAnswer
                /\ Finish([c EXCEPT !.name = "size",
                                    !.fh = <<FhCall("Truncate", nodes[n].RemotePath)>>,
                                    !.fhErr = ~ok, !.result = IF ok THEN "nil" ELSE "err"])
           ELSE IF "mode" \in valid
                THEN /\ resp # NoAnswer
                     /\ ok
                     /\ Finish([c EXCEPT !.name = "mode",
                                         !.rpcs = <<Rpc(SetAttrRequest, nodes[n].RemotePath)>>,
                                         !.resp = resp,
                                         !.result = IF TypeAssert(resp.Data, "Error")
                                                    THEN "err" ELSE "nil"])
                ELSE /\ resp = NoAnswer
                     /\ ok
                     /\ Finish(c)
Setattr(n, valid, ok, resp) ==
    LET c == [Call("Setattr", n, "") EXCEPT !.valid = valid]
    IN  /\ nodes' = nodes
        /\ IF "size" \in valid
           THEN /\ resp = NoAnswer
                /\ Finish([c EXCEPT !.name = "size",
                                    !.fh = <<FhCall("Truncate", nodes[n].RemotePath)>>,
                                    !.fhErr = ~ok, !.result = IF ok THEN "nil" ELSE "err"])
           ELSE IF "mode" \in valid
                THEN /\ resp # NoAnswer
                     /\ ok
                     /\ Finish([c EXCEPT !.name = "mode",
                                         !.rpcs = <<Rpc(SetAttrRequest, nodes[n].RemotePath)>>,
                                         !.resp = resp,
                                         !.result = IF TypeAssert(resp.Data, "Error")
                                                    THEN "err" ELSE "nil"])
                ELSE /\ resp = NoAnswer
                     /\ ok
                     /\ Finish(c)

\* RemoteNode.Open: the handle comes back even when OpenFile failed
Open(n, ok) ==
    /\ nodes' = nodes
    /\ Finish([Call("Open", n, "") EXCEPT !.fh = <<FhCall("OpenFile", nodes[n].RemotePath)>>,
                                          !.ret = n,
                                          !.fhErr = ~ok, !.result = IF ok THEN "nil" ELSE "err"])

\* RemoteNode.Fsync
Fsync(n) ==
    /\ nodes' = nodes
    /\ Finish(Call("Fsync", n, ""))

\* RemoteNode.Create (isDir FALSE) and RemoteNode.Mkdir (isDir TRUE): ok is the
\* result of the file handler
CreateNoInsert(op, n, name, isDir, ok) ==
    IF ok
    THEN /\ Len(nodes) < MaxNodes
         /\ nodes' = Append(nodes, generateChildRemoteNode(nodes[n], name, isDir))
         /\ Finish([Call(op, n, name) EXCEPT !.ret = Len(nodes) + 1])
    ELSE /\ nodes' = nodes
         /\ Finish([Call(op, n, name) EXCEPT !.fhErr = TRUE, !.result = "err"])
CreateChild(op, n, name, isDir, ok) ==
    IF ok
    THEN /\ Len(nodes) < MaxNodes
         /\ nodes' = [Append(nodes, generateChildRemoteNode(nodes[n], name, isDir))
                         EXCEPT ![n].RemoteNodes = MapSet(@, name, Len(nodes) + 1)]
         /\ Finish([Call(op, n, name) EXCEPT !.ret = Len(nodes) + 1])
    ELSE /\ nodes' = nodes
         /\ Finish([Call(op, n, name) EXCEPT !.fhErr = TRUE, !.result = "err"])
Create(n, name, ok) == CreateChild("Create", n, name, FALSE, ok)
Mkdir(n, name, ok) == CreateChild("Mkdir", n, name, TRUE, ok)

\* RemoteNode.Remove
RemoveEager(n, name, ok) ==
    IF ok
    THEN /\ nodes' = [nodes EXCEPT ![n].RemoteNodes = MapDelete(@, name)]
         /\ Finish(Call("Remove", n, name))
    ELSE /\ nodes' = [nodes EXCEPT ![n].RemoteNodes = MapDelete(@, name)]
         /\ Finish([Call("Remove", n, name) EXCEPT !.fhErr = TRUE, !.result = "err"])
Remove(n, name, ok) ==
    IF ok
    THEN /\ nodes' = [nodes EXCEPT ![n].RemoteNodes = MapDelete(@, name)]
         /\ Finish(Call("Remove", n, name))
    ELSE /\ nodes' = nodes
         /\ Finish([Call("Remove", n, name) EXCEPT !.fhErr = TRUE, !.result = "err"])

\* RemoteNode.Rename: curRn is nil when OldName is no child, and reading its
\* RemotePath then panics; FileHandler.Rename is given curRn.RemotePath, and on success
\* the path is assigned into that same object
RenameKeepOld(n, old, new, dest, ok) ==
    LET c == [Call("Rename", n, old) EXCEPT !.dest = dest, !.destName = new]
        curRn == IF old \in DOMAIN nodes[n].RemoteNodes THEN nodes[n].RemoteNodes[old] ELSE NoNode
        destPath == Join(nodes[dest].RemotePath, new)
        moved == [nodes EXCEPT ![curRn].RemotePath = destPath]
    IN  IF curRn = NoNode
        THEN /\ nodes' = nodes
             /\ Finish([c EXCEPT !.result = "panic"])
        ELSE IF ~ok
             THEN /\ nodes' = nodes
                  /\ Finish([c EXCEPT !.cur = curRn, !.arg = Handed(curRn), !.fhErr = TRUE,
                                      !.result = "err"])
             ELSE /\ renames < MaxRenames
                  /\ nodes' = [moved EXCEPT ![dest].RemoteNodes = MapSet(@, new, curRn)]
                  /\ Finish([c EXCEPT !.cur = curRn, !.arg = Handed(curRn)])
Rename(n, old, new, dest, ok) ==
    LET c == [Call("Rename", n, old) EXCEPT !.dest = dest, !.destName = new]
        curRn == IF old \in DOMAIN nodes[n].RemoteNodes THEN nodes[n].RemoteNodes[old] ELSE NoNode
        destPath == Join(nodes[dest].RemotePath, new)
        moved == [nodes EXCEPT ![curRn].RemotePath = destPath]
        deleted == [moved EXCEPT ![n].RemoteNodes = MapDelete(@, old)]
    IN  IF curRn = NoNode
        THEN /\ nodes' = nodes
             /\ Finish([c EXCEPT !.result = "panic"])
        ELSE IF ~ok
             THEN /\ nodes' = nodes
                  /\ Finish([c EXCEPT !.cur = curRn, !.arg = Handed(curRn), !.fhErr = TRUE,
                                      !.result = "err"])
             ELSE /\ renames < MaxRenames
                  /\ nodes' = [deleted EXCEPT ![dest].RemoteNodes = MapSet(@, new, curRn)]
                  /\ Finish([c EXCEPT !.cur = curRn, !.arg = Handed(curRn)])

\* the root node of one mount, seen apart from the talker's and the codec's state
NodeStart == TalkerInit({}) /\ NodeInit /\ CodecQuiet /\ StartQuiet

\* the upcalls that ask the agent
NodeNext ==
    \/ \E n \in NodeIds, resp \in StatAnswers \cup {ErrorAnswer} : Attr(n, resp)
    \/ \E n \in Dirs, name \in Names, resp \in DirAnswers \cup {ErrorAnswer, NoAnswer} :
            Lookup(n, name, resp)
    \/ \E n \in Dirs, resp \in DirAnswers \cup {ErrorAnswer} : ReadDirAll(n, resp)
    \/ \E n \in NodeIds, valid \in SUBSET ValidBits, ok \in BOOLEAN,
          resp \in StatAnswers \cup {ErrorAnswer, NoAnswer} : Setattr(n, valid, ok, resp)
    \/ \E n \in NodeIds, ok \in BOOLEAN : Open(n, ok)
    \/ \E n \in NodeIds : Fsync(n)

NodeSpec == NodeStart /\ [][NodeNext]_vars

\* Setattr on the nodes that enumerations make
SetattrNext ==
    \/ \E n \in Dirs, resp \in DirAnswers \cup {ErrorAnswer} : ReadDirAll(n, resp)
    \/ \E n \in NodeIds, valid \in SUBSET ValidBits, ok \in BOOLEAN,
          resp \in StatAnswers \cup {ErrorAnswer, NoAnswer} : Setattr(n, valid, ok, resp)

SetattrSpec == NodeStart /\ [][SetattrNext]_vars

\* Lookup between the upcalls that make and remove children through the file handler
TreeNext ==
    \/ \E n \in Dirs, name \in Names, resp \in FileAnswers \cup {ErrorAnswer, NoAnswer} :
            Lookup(n, name, resp)
    \/ \E n \in Dirs, name \in Names, ok \in BOOLEAN : Create(n, name, ok)
    \/ \E n \in Dirs, name \in Names, ok \in BOOLEAN : Mkdir(n, name, ok)
    \/ \E n \in Dirs, name \in Names, ok \in BOOLEAN : Remove(n, name, ok)

TreeSpec == NodeStart /\ [][TreeNext]_vars

\* Rename, on the trees that Create and Mkdir build
RenameNext ==
    \/ \E n \in Dirs, name \in Names, ok \in BOOLEAN : Create(n, name, ok)
    \/ \E n \in Dirs, name \in Names, ok \in BOOLEAN : Mkdir(n, name, ok)
    \/ \E n \in Dirs, old \in Names, new \in Names, dest \in Dirs, ok \in BOOLEAN :
            Rename(n, old, new, dest, ok)

RenameSpec == NodeStart /\ [][RenameNext]_vars

\* the four upcalls that change the tree through the file handler
MutateNext ==
    \/ \E n \in Dirs, name \in Names, ok \in BOOLEAN : Create(n, name, ok)
    \/ \E n \in Dirs, name \in Names, ok \in BOOLEAN : Mkdir(n, name, ok)
    \/ \E n \in Dirs, name \in Names, ok \in BOOLEAN : Remove(n, name, ok)
    \/ \E n \in Dirs, old \in Names, new \in Names, dest \in Dirs, ok \in BOOLEAN :
            Rename(n, old, new, dest, ok)

MutateSpec == NodeStart /\ [][MutateNext]_vars

(***************************************************************************)
(* Claims about the talker.                                                *)
(***************************************************************************)
IsStamped(ch) == stamped[ch] # NoStamp
KeyOf(ch) == GetMapKey(stamped[ch].Hostname, stamped[ch].ConnId, stamped[ch].Id)
\* the pending table holds the tuple of the request made on channel ch
HasEntry(ch) ==
    /\ IsStamped(ch)
    /\ CmapHas(RequestBuffer, KeyOf(ch))
    /\ RequestBuffer[KeyOf(ch)].Channel = ch
\* the frame of the request made on channel ch is on the wire
Written(ch) ==
    /\ IsStamped(ch)
    /\ \E n \in 1 .. Len(outbound[stamped[ch].Hostname][stamped[ch].ConnId]) :
            outbound[stamped[ch].Hostname][stamped[ch].ConnId][n].Data = ch
Delivered(ch) == delivered[ch] # <<>>
\* an ingress worker has read a response frame carrying the key of channel ch
ResponseRead(ch) ==
    \E h \in Pools, i \in ConnIds :
        /\ ingress[h][i].pc = "send"
        /\ ingress[h][i].ch = ch
\* an ingress worker is between its send on ch and its Remove of ch's key
Finishing(ch) ==
    \E h \in Pools, i \in ConnIds :
        /\ ingress[h][i].pc \in {"close", "remove"}
        /\ ingress[h][i].ch = ch

\* C1, order of the three steps: a channel is handed at most one packet, it is closed
\* only after that packet was handed over, and the pending entry of a request is gone
\* only after its channel was closed.
RoutingOrder ==
    \A ch \in Chans :
        /\ Len(delivered[ch]) <= 1
        /\ (ch \in closed => Len(delivered[ch]) = 1)
        /\ (IsStamped(ch) /\ ~HasEntry(ch) => ch \in closed)
\* the request on ch has been answered for good: one packet, channel closed, entry gone
Routed(ch) ==
    /\ Len(delivered[ch]) = 1
    /\ ch \in closed
    /\ ~HasEntry(ch)
\* C1 (response routing): once an ingress worker has read a response frame with the
\* key of a request, exactly one packet is delivered on the request's channel, then the
\* channel is closed, then the pending entry is removed; and there is never a second
\* delivery on that channel.
C1_ResponseRouting ==
    /\ [] RoutingOrder
    /\ \A ch \in Chans : ResponseRead(ch) ~> Routed(ch)
\* two requests were routed to their callers
C1_Witness ==
    \E a, b \in Chans : a # b /\ Routed(a) /\ Routed(b)

\* C2 (demultiplexing): the packet a caller gets back carries the conn_id and id the
\* egress worker stamped on that caller's request, and answers that caller's request.
C2_Demultiplexing ==
    \A ch \in Chans :
        Delivered(ch) =>
            /\ delivered[ch][1].ConnId = stamped[ch].ConnId
            /\ delivered[ch][1].Id = stamped[ch].Id
            /\ delivered[ch][1].Data = ch
\* two callers used the same connection of the same remote, and the one stamped later
\* has its response while the other still waits
C2_Witness ==
    \E a, b \in Chans :
        /\ a # b
        /\ IsStamped(a) /\ IsStamped(b)
        /\ stamped[a].Hostname = stamped[b].Hostname
        /\ stamped[a].ConnId = stamped[b].ConnId
        /\ stamped[a].Id < stamped[b].Id
        /\ Delivered(b) /\ ~Delivered(a)
        /\ caller[a].pc = "recv"

\* C3 (id uniqueness): two requests of one remote never carry the same id, on whichever
\* connections they went; so no two of them share (conn_id, id).
C3_IdUnique ==
    \A a, b \in Chans :
        (a # b /\ IsStamped(a) /\ IsStamped(b)
              /\ stamped[a].Hostname = stamped[b].Hostname)
            => stamped[a].Id # stamped[b].Id
\* two requests of one remote were stamped by different egress workers while both are
\* outstanding
C3_Witness ==
    \E a, b \in Chans :
        /\ a # b
        /\ IsStamped(a) /\ IsStamped(b)
        /\ stamped[a].Hostname = stamped[b].Hostname
        /\ stamped[a].ConnId # stamped[b].ConnId
        /\ HasEntry(a) /\ HasEntry(b)

\* C4 as stated (pending-table invariant): an entry for every written request whose
\* response is not delivered, and none for a request whose response is delivered.
C4_AsStated ==
    \A ch \in Chans :
        /\ (Written(ch) /\ ~Delivered(ch) => HasEntry(ch))
        /\ (Delivered(ch) => ~HasEntry(ch))
\* C4 as amended: an entry for every written request whose response is not delivered;
\* an entry of a request whose response is delivered is there only while the ingress
\* worker that delivered it has not yet come to its Remove.
C4_PendingTable ==
    \A ch \in Chans :
        /\ (Written(ch) /\ ~Delivered(ch) => HasEntry(ch))
        /\ (Delivered(ch) /\ HasEntry(ch) => Finishing(ch))
\* one request is written and pending, another is delivered and its entry is gone
C4_Witness ==
    \E a, b \in Chans :
        /\ Written(a) /\ ~Delivered(a) /\ HasEntry(a)
        /\ Delivered(b) /\ ~HasEntry(b)

\* C5 (no deadlock, eventual return): with the agent answering every request frame
\* and every possible step eventually taken, every call of sendRequest returns.
C5_EventualReturn ==
    \A c \in Callers : (caller[c].pc # "done") ~> (caller[c].pc = "done")
\* two calls are under way at once: one blocked on its full egress queue, the other
\* waiting on its response channel
C5_Witness ==
    \E a, b \in Callers :
        /\ caller[a].pc = "enqueue"
        /\ Len(SendingChannels[caller[a].hostname][caller[a].index]) = QueueCap
        /\ caller[b].pc = "recv"


(***************************************************************************)
(* Claims about the node tree.                                             *)
(***************************************************************************)
\* the agent answered the upcall's request with an ErrorResponse
ErrorAnswered == last.resp = ErrorAnswer
\* the upcall handed an error to the kernel
ReturnedError == last.result \in {"err", "ENOENT"}

\* C6 (error responses): when the response to an upcall's request is an ErrorResponse,
\* the upcall returns an error to the kernel and does not treat the response as the
\* success variant (it fills in no attributes).
C6_AsStated ==
    (last.op \in {"Attr", "Lookup", "ReadDirAll", "Setattr"} /\ ErrorAnswered) =>
        (ReturnedError /\ last.attr = <<>>)

\* the children of the node that was looked up are the entries of the response
Repopulated ==
    /\ DOMAIN nodes[last.node].RemoteNodes = Listed(last.resp)
    /\ \A i \in 1 .. Len(last.resp.Data.val) :
          LET st == last.resp.Data.val[i]
              child == nodes[nodes[last.node].RemoteNodes[st.Name]]
          IN  /\ child.IsDir = st.IsDir
              /\ child.RemotePath = Join(nodes[last.node].RemotePath, st.Name)
\* C9 (Lookup): a Lookup of a name in the child map returns that node and sends
\* nothing; otherwise it sends exactly one ReadDirAllRequest for the node's path,
\* repopulates the child map from the response, and returns the node of the name if
\* the response lists it and no-entry otherwise.
C9_AsStated ==
    (last.op = "Lookup") =>
        IF last.hit
        THEN /\ last.rpcs = <<>>
             /\ last.result = "nil"
             /\ last.ret = nodes[last.node].RemoteNodes[last.name]
        ELSE /\ last.rpcs = <<Rpc(ReadDirAllRequest, nodes[last.node].RemotePath)>>
             /\ Repopulated
             /\ IF last.name \in Listed(last.resp)
                THEN /\ last.result = "nil"
                     /\ last.ret = nodes[last.node].RemoteNodes[last.name]
                ELSE /\ last.result = "ENOENT"
                     /\ last.ret = NoNode

\* C7 (child map after create and remove): a Lookup(d, n) right after a successful
\* Create or Mkdir of n in d returns the created node and sends nothing; a Lookup(d, n)
\* right after a successful Remove of n in d sends a ReadDirAllRequest for d and
\* returns no-entry when the listing does not contain n.
C7_LookupAfter ==
    /\ (last.op = "Lookup" /\ prev.op \in {"Create", "Mkdir"}) =>
            /\ last.rpcs = <<>>
            /\ last.result = "nil"
            /\ last.ret = prev.ret
            /\ nodes[last.ret].IsDir = (prev.op = "Mkdir")
            /\ nodes[last.ret].RemotePath = Join(nodes[last.node].RemotePath, last.name)
    /\ (last.op = "Lookup" /\ prev.op = "Remove") =>
            /\ last.rpcs = <<Rpc(ReadDirAllRequest, nodes[last.node].RemotePath)>>
            /\ (last.resp.Data.type = "*DirInfo" /\ last.name \notin Listed(last.resp)) =>
                   (last.result = "ENOENT" /\ last.ret = NoNode)
\* a name was removed, and the Lookup that followed asked the agent, whose listing
\* held the other name only
C7_Witness ==
    /\ last.op = "Lookup"
    /\ prev.op = "Remove"
    /\ Listed(last.resp) = Names \ {last.name}
    /\ last.result = "ENOENT"

\* a Rename returned nil
Renamed == last.op = "Rename" /\ last.result = "nil"
\* old is gone from A, new in B is the node that was old in A, and its path is B/new
RenamePost ==
    /\ last.name \notin DOMAIN nodes[last.node].RemoteNodes
    /\ last.destName \in DOMAIN nodes[last.dest].RemoteNodes
    /\ nodes[last.dest].RemoteNodes[last.destName] = last.cur
    /\ nodes[last.cur].RemotePath = Join(nodes[last.dest].RemotePath, last.destName)
\* C8 as the specification states it: after every successful Rename(A, old, B, new),
\* A.children[old] is absent, B.children[new] is the node that was A.children[old], and
\* that node's path is join(B's path, new).
C8_AsStated == Renamed => RenamePost
\* C8 (Rename moves the node), amended: the same, for a Rename that does not rename
\* an entry to itself (A = B and old = new) and whose target directory B is not the
\* renamed node.
C8_RenameMoves ==
    (/\ Renamed
     /\ ~(last.node = last.dest /\ last.name = last.destName)
     /\ last.dest # last.cur) => RenamePost
\* a node was moved from one directory to another, under another name
C8_Witness ==
    /\ Renamed
    /\ last.node # last.dest
    /\ last.name # last.destName
    /\ last.dest # last.cur
    /\ RenamePost

(***************************************************************************)
(* Claims about the frame codec.                                           *)
(***************************************************************************)
\* the header of the frame Marshal returned: the id in bytes 0-7, most significant
\* byte first, then op, conn_id and flags, and the payload from byte 11 on
HeaderLayout ==
    /\ Len(cframe.data) >= 11
    /\ \A k \in 1 .. 4 :
            cframe.data[2 * k - 1] * 256 + cframe.data[2 * k] = cpkt.Id[k]
    /\ cframe.data[9] = cpkt.Op
    /\ cframe.data[10] = cpkt.ConnId
    /\ cframe.data[11] = cpkt.Flags
    /\ SubSeq(cframe.data, 12, Len(cframe.data)) = MsgpackMarshal(cpkt.Data).data
\* C10 (frame round trip): a frame that Marshal returns has the 11-byte header layout,
\* and for a packet whose op has a payload variant Unmarshal gives back the same id,
\* op, conn_id, flags and payload.
C10_RoundTrip ==
    /\ (cframe # <<>> /\ ~cframe.err) => HeaderLayout
    /\ (cout # <<>> /\ ~cframe.err /\ cpkt.Op \in DefinedOps) =>
            (cout.status = "ok" /\ cout.pkt = cpkt)
\* an error response with an id that uses all eight bytes went through both ways
C10_Witness ==
    /\ cout # <<>>
    /\ cout.status = "ok"
    /\ cpkt.Op = ErrorResponse
    /\ cpkt.Id = <<4660, 22136, 39612, 57072>>
    /\ cpkt.ConnId = 255
    /\ cpkt.Data.val = <<1, 200>>
    /\ cout.pkt = cpkt

(***************************************************************************)
(* Keepalive                                                               *)
(***************************************************************************)
\* the connections setupPing has still to ping in the tick it is serving
PingPending == {ping.todo[k] : k \in DOMAIN ping.todo}

\* C11: at every moment each connection of each pool has been handed one ping frame
\* per tick received, less the one of the running tick where the loop has not yet
\* come to it; write failures change nothing in that count and never end the process.
C11_Keepalive ==
    /\ \A h \in Pools : \A i \in ConnIds :
          /\ attempts[h][i] = IF <<h, i>> \in PingPending THEN ticks - 1 ELSE ticks
          /\ failures[h][i] <= attempts[h][i]
    /\ ping.pc = "wait" <=> ping.todo = <<>>
    /\ ~crashed

\* two ticks served; the first connection failed once, and every connection was
\* pinged in both ticks all the same
C11_Witness ==
    /\ ticks = 2
    /\ ping.pc = "wait"
    /\ \E h \in Pools : failures[h][0] = 1
    /\ \A h \in Pools : \A i \in ConnIds : attempts[h][i] = 2

(***************************************************************************)
(* Encoder errors                                                          *)
(***************************************************************************)
\* the egress worker of the connection has taken the request of caller c from the
\* queue and is back at the range, i.e. Marshal and WriteMessage are behind it
Handled(c) ==
    /\ stamped[c] # NoStamp
    /\ egress[stamped[c].Hostname][stamped[c].ConnId].req.Channel # c

\* the pending table holds the request of caller c, and its payload is one the
\* encoder rejects
PendingUnencodable(c) ==
    \E k \in DOMAIN RequestBuffer :
        RequestBuffer[k].Channel = c /\ MarshalFails(RequestBuffer[k].Packet)

\* C12 (as the specification states it): once the egress worker has handled a request
\* whose Marshal failed, the pending table holds no entry for it (the caller got the
\* failure back and waits for nothing), and no frame has gone out for it.
C12_AsStated ==
    /\ \A c \in Callers : Handled(c) => ~PendingUnencodable(c)
    /\ \A h \in Pools : \A i \in ConnIds : \A n \in DOMAIN outbound[h][i] :
          outbound[h][i][n] # EmptyFrame

(***************************************************************************)
(* The directory flag                                                      *)
(***************************************************************************)
\* the last upcall was answered with the success variant and returned nil
Succeeded(op) == last.op = op /\ last.result = "nil" /\ last.rpcs # <<>>

\* C13 (as the specification states it): after a successful Attr the node's IsDir is
\* the flag of the Stat it was answered with, and after a successful enumeration
\* (ReadDirAll, or the one a Lookup miss makes) each listed child's IsDir is the flag
\* of its entry.
C13_AsStated ==
    /\ Succeeded("Attr") => nodes[last.node].IsDir = last.resp.Data.val[1].IsDir
    /\ (Succeeded("ReadDirAll") \/ (Succeeded("Lookup") /\ ~last.hit)) =>
          \A k \in DOMAIN last.resp.Data.val :
              LET f == last.resp.Data.val[k]
              IN  /\ f.Name \in DOMAIN nodes[last.node].RemoteNodes
                  /\ nodes[nodes[last.node].RemoteNodes[f.Name]].IsDir = f.IsDir

(***************************************************************************)
(* The lifetime of child nodes                                             *)
(***************************************************************************)
\* the upcalls that neither remove nor rename
Keeping == {"Attr", "Lookup", "ReadDirAll", "Open", "Setattr", "Fsync"}

\* C14 (as the specification states it): every child the directory's map held when
\* one of the upcalls of Keeping began on it is in the map under the same name, and is
\* the same node object, when the upcall has returned.
C14_AsStated ==
    last.op \in Keeping =>
        \A name \in DOMAIN last.kids :
            /\ name \in DOMAIN nodes[last.node].RemoteNodes
            /\ nodes[last.node].RemoteNodes[name] = last.kids[name]

(***************************************************************************)
(* RemotePath values                                                       *)
(***************************************************************************)
\* C15 (as the specification states it): after a successful Rename, the RemotePath
\* that was handed out before the rename (here to FileHandler.Rename) still shows
\* the path it showed then.
C15_AsStated == Renamed => Deref(last.arg.Ref) = last.arg.Path

(***************************************************************************)
(* Write order on one connection                                           *)
(***************************************************************************)
\* the response channels of the frames written on connection i of h, in write order
WrittenChans(h, i) == [n \in 1 .. Len(outbound[h][i]) |-> outbound[h][i][n].Data]

Dispatch ==
    last.op = "Setattr" =>
        IF "size" \in last.valid
        THEN /\ last.fh = <<FhCall("Truncate", nodes[last.node].RemotePath)>>
             /\ last.rpcs = <<>>
        ELSE IF "mode" \in last.valid
             THEN /\ last.fh = <<>>
                  /\ last.rpcs = <<Rpc(SetAttrRequest, nodes[last.node].RemotePath)>>
             ELSE /\ last.fh = <<>>
                  /\ last.rpcs = <<>>
                  /\ last.result = "nil"

\* C17: with size valid Setattr calls Truncate and sends nothing; otherwise with mode
\* valid it sends exactly one SetAttrRequest; otherwise it calls and sends nothing and
\* returns success; and no Setattr changes a node.
C17_SetattrDispatch == []Dispatch /\ [][last'.op = "Setattr" => nodes' = nodes]_vars

\* size and mode both valid: Truncate alone was called
C17_Witness ==
    /\ last.op = "Setattr"
    /\ last.valid = {"size", "mode"}
    /\ last.fh = <<FhCall("Truncate", nodes[last.node].RemotePath)>>
    /\ last.rpcs = <<>>

(***************************************************************************)
(* Failure of the file handler                                             *)
(***************************************************************************)
Mutating == {"Create", "Mkdir", "Remove", "Rename"}

\* C18: a Create, Mkdir, Remove or Rename whose file-handler call reported an error
\* returns an error and leaves every node (its child map and its RemotePath) as it was.
C18_FailureKeepsState ==
    [][(last'.op \in Mutating /\ last'.fhErr) => (last'.result = "err" /\ nodes' = nodes)]_vars

\* a Rename of an existing child to another directory failed in the file handler, and
\* the child is still under its old name with its old path
C18_Witness ==
    /\ last.op = "Rename"
    /\ last.fhErr
    /\ last.result = "err"
    /\ last.node # last.dest
    /\ last.name \in DOMAIN nodes[last.node].RemoteNodes
    /\ nodes[last.node].RemoteNodes[last.name] = last.cur
    /\ Deref(last.arg.Ref) = last.arg.Path

(***************************************************************************)
(* Paths along the tree                                                    *)
(***************************************************************************)
\* the nodes the maps lead to from the nodes of S, S included
WithChildren(S) ==
    S \cup {nodes[d].RemoteNodes[x] : <<d, x>> \in
               {<<d, x>> \in S \X Names : x \in DOMAIN nodes[d].RemoteNodes}}
RECURSIVE Reach(_, _)
Reach(S, k) == IF k = 0 THEN S ELSE Reach(WithChildren(S), k - 1)
\* the nodes of the mounted tree: the root and what the child maps lead to
Attached == Reach({1}, MaxNodes)

\* C20 (as stated): every node stored under a name in the child map of a directory
\* of the tree has the path join(the directory's path, name).
C20_AsStated ==
    \A d \in Attached : \A x \in DOMAIN nodes[d].RemoteNodes :
        nodes[nodes[d].RemoteNodes[x]].RemotePath = Join(nodes[d].RemotePath, x)

(***************************************************************************)
(* The pools after Startup                                                 *)
(***************************************************************************)
\* Startup has returned and every goroutine it spawned is at work
Started ==
    /\ startup.pc = "done"
    /\ \A w \in DOMAIN workers : workers[w].pc = "running"

\* the workers of one kind that address connection index of the pool of hostname
Serving(kind, hostname, index) ==
    {w \in DOMAIN workers : /\ workers[w].kind = kind
                            /\ workers[w].hostname = hostname
                            /\ workers[w].index = index}

\* C19 (as the specification states it): after Startup the pool of every hostname
\* among the roots holds PoolCount connections, and each index of it has exactly one
\* egress worker and exactly one ingress worker.
C19_AsStated ==
    Started =>
        \A r \in DOMAIN roots :
            /\ PoolLen(poolHeap[poolOf[roots[r]]]) = PoolCount
            /\ \A i \in ConnIds :
                  /\ Cardinality(Serving("egress", roots[r], i)) = 1
                  /\ Cardinality(Serving("ingress", roots[r], i)) = 1

(***************************************************************************)
(* Writers of one connection                                               *)
(***************************************************************************)
\* C21 (as stated): at no moment is more than one goroutine inside WriteMessage on
\* one connection; the ping write and the egress write never overlap.
C21_AsStated ==
    \A h \in Pools : \A i \in ConnIds : Cardinality(writers[h][i]) <= 1

(***************************************************************************)
(* Responses that answer nothing                                           *)
(***************************************************************************)
\* C22 (as stated): whatever response frames the agent sends, also ones whose key has
\* no entry in the pending table and ones sent twice, no ingress worker panics (on the
\* missing entry, or by sending on or closing a closed channel) and the process runs on.
C22_AsStated == ~crashed

====
